---- MODULE Spec2Model ----
(***************************************************************************)
(* Model of the Metadata Manager (seekr/src/kafka/metadata/manager.rs), of *)
(* the shutdown latch it uses (seeker/src/shutdown.rs), of the process     *)
(* around it (seekr/src/server.rs: start at boot, the shutdown task) and   *)
(* of the HTTP handlers that call it (seekr/src/clusters/endpoints/v1.rs). *)
(*                                                                         *)
(* Tasks run on a multi-threaded executor, so every step between two       *)
(* synchronisation points is an action of its own: the manager's           *)
(* tokio RwLock, the latch's state word and the two Notify objects are the *)
(* only shared objects.                                                    *)
(*                                                                         *)
(* Spec is the serving process: handlers, pollers and the shutdown task.   *)
(* BootSpec is the process from boot to shutdown with no request.          *)
(* HttpSpec is the serving process seen from POST and DELETE /clusters.    *)
(* SubsSpec is the subscription endpoints over the two stores.             *)
(* IndexerSpec is the indexer process (seekr/src/indexer.rs).              *)
(* FetchSpec is fetch_meta over what a cluster reports, PeriodSpec the     *)
(* resolution of the poll period, TimerSpec the poller's interval in time. *)
(***************************************************************************)
EXTENDS Integers, FiniteSets, Sequences, TLC

\* ---- bounds ----
MaxId == 2          \* cluster ids 1..MaxId
MaxRequestId == 1   \* ids the concurrent callers of Spec pass: 1..MaxRequestId
MaxTasks == 2       \* ConsumerContext / poller instances ever created
MaxCallers == 2     \* concurrent callers of register / remove / get
MaxMeta == 1        \* distinct snapshots a fetch can return
MaxBacklog == 1     \* elapsed, not yet consumed interval ticks
MaxSub == 3         \* subscription ids 1..MaxSub
MaxTopic == 2       \* topic names a subscription can have
MaxChar == 2        \* letters of the alphabet of host, topic and group names
MaxNameLen == 1     \* length of a name
MaxList == 2        \* brokers, topics, groups and partitions the cluster reports
MaxConfigLen == 3   \* characters of a configured poll interval
MaxFetch == 3       \* longest fetch, in poll periods
MaxClock == 8       \* the clock stops after this many poll periods
MaxStarts == 2      \* calls of Scheduler::start on one scheduler

Ids == 1..MaxId
RequestIds == {i \in Ids : i <= MaxRequestId}
Tasks == 1..MaxTasks
Callers == 1..MaxCallers
Metas == 1..MaxMeta
SubIds == 1..MaxSub
Topics == 1..MaxTopic

NoTask == 0

\* ---- CachedMetadataEntry and Option<CachedMetadataEntry> ----
None == <<"None">>
Processing == <<"Processing">>
Meta(m) == <<"Meta", m>>
Failed(msg) == <<"Failed", msg>>

\* Result<ClusterMetadata, Box<dyn Error>> of fetch_meta
Ok(m) == <<"Ok", m>>
Err(e) == <<"Err", e>>
FetchResults == {Ok(m) : m \in Metas} \cup {Err("timeout")}
NoResult == <<"NoResult">>
NoReturn == <<"NoReturn">>
Unit == <<"Unit">>
\* the task of the caller has panicked
Panic == <<"Panic">>
\* Result<Vec<Cluster>, AnyError> of store.list: the ids of the clusters
ListResults == {Ok(S) : S \in SUBSET Ids} \cup {Err("list")}

\* format!("Error: Failed to fetch metadata for cluster {} - {:?}", id, err)
FormatError(id, r) == <<id, r[2]>>

VARIABLES
    context,        \* State.context : id -> task (NoTask when absent)
    cache,          \* State.cache   : id -> entry (None when absent)
    rwlock,         \* MetadataManager.state lock: [readers, writer]
    state,          \* Shutdown.inner.state of the latch of each context
    begin,          \* Shutdown.begin    Notify of each latch
    complete,       \* Shutdown.complete Notify of each latch
    ppc,            \* position of each context's poller task
    cluster,        \* cluster.id captured by each poller
    result,         \* fetch result held by a poller
    ticks,          \* ticks of the poller's interval that are due
    cop, cpc, cid, ctask, cret,   \* callers: operation, position, argument,
                                  \* context in hand, value returned
    cinit,                   \* callers: what the init() they called returned
    cresp,                   \* callers: the HTTP response of the handler
    spc, stodo, scur,        \* stop(): position, iterator, current context
    boot,                    \* start(): phase, clusters listed, clusters to do
    server,                  \* the HTTP server: "running" or "stopped"
    store,                   \* the cluster store: rows, next id of the generator
    cstore,                  \* callers: what the store call of the handler returned
    subs,                    \* the subscription store: rows, next id
    ureq,                    \* the subscription request being served
    sched,                   \* indexer: the Scheduler call under way
    workers,                 \* indexer: State.workers and the worker tasks
    meta,                    \* fetch_meta: what the brokers reported, what it returned
    config,                  \* poll: cluster.config["metadata.poll.interval.ms"]
    refresh,                 \* poll: the period it resolved
    timer                    \* poll: the clock, the interval and the fetches made

vars == <<context, cache, rwlock, state, begin, complete, ppc, cluster,
          result, ticks, cop, cpc, cid, ctask, cret, cinit, cresp, spc, stodo, scur,
          boot, server, store, cstore, subs, ureq, sched, workers, meta,
          config, refresh, timer>>

mgr == <<context, cache>>
latch == <<state, begin, complete>>
poller == <<ppc, cluster, result, ticks>>
caller == <<cop, cpc, cid, ctask, cret, cinit, cresp>>
stopper == <<spc, stodo, scur>>
subsc == <<subs, ureq>>
indexer == <<sched, workers>>
period == <<config, refresh>>
\* the state outside the server process and its manager
outside == <<subsc, indexer, meta, period, timer>>
env == <<boot, server, store, cstore, outside>>
\* the server process: the manager, its callers and pollers, the cluster store
process == <<mgr, rwlock, latch, poller, caller, stopper, boot, server, store, cstore>>

\* ---- tokio::sync::Notify ----
NewNotify == [waiters |-> {}, notified |-> {}]
\* notified(): the future is registered; no permit is ever stored
Register(n, w) == [n EXCEPT !.waiters = @ \cup {w}]
\* notify_waiters(): wakes the futures registered now, nothing else
NotifyWaiters(n) == [waiters |-> {}, notified |-> n.notified \cup n.waiters]
\* dropping (or completing) a Notified future
Drop(n, w) == [waiters |-> n.waiters \ {w}, notified |-> n.notified \ {w}]

\* ---- Shutdown ----
is_shutdown(t) == state[t] = "Started" \/ state[t] = "Complete"

\* ---- RwLock ----
Unlocked == [readers |-> 0, writer |-> FALSE]
CanRead == ~rwlock.writer
CanWrite == ~rwlock.writer /\ rwlock.readers = 0

\* start() has not been called (server.rs:40)
NotBooted == [phase |-> "new", listed |-> {}, todo |-> {}]
\* start() has returned Ok for the clusters S of the store (server.rs:43-48)
Booted(S) == [phase |-> "ok", listed |-> S, todo |-> {}]

\* MetadataManager::new (manager.rs:41-50); the HTTP server is not stopped
Constructed ==
    /\ context = [i \in Ids |-> NoTask]
    /\ cache = [i \in Ids |-> None]
    /\ rwlock = Unlocked
    /\ state = [t \in Tasks |-> "NotStarted"]
    /\ begin = [t \in Tasks |-> NewNotify]
    /\ complete = [t \in Tasks |-> NewNotify]
    /\ ppc = [t \in Tasks |-> "none"]
    /\ cluster = [t \in Tasks |-> 0]
    /\ result = [t \in Tasks |-> NoResult]
    /\ ticks = [t \in Tasks |-> 0]
    /\ cop = [c \in Callers |-> "none"]
    /\ cpc = [c \in Callers |-> "idle"]
    /\ cid = [c \in Callers |-> 0]
    /\ ctask = [c \in Callers |-> NoTask]
    /\ cret = [c \in Callers |-> NoReturn]
    /\ cinit = [c \in Callers |-> NoReturn]
    /\ cresp = [c \in Callers |-> NoReturn]
    /\ spc = "idle"
    /\ stodo = {}
    /\ scur = NoTask
    /\ server = "running"

\* the cluster store is empty and its id generator has issued no id; no
\* handler has called the store
HttpIdle ==
    /\ store = [rows |-> {}, next |-> 1]
    /\ cstore = [c \in Callers |-> NoReturn]

\* no subscription is stored and no subscription request is being served
NoRequest == [op |-> "none", cluster |-> 0, id |-> 0, topic |-> 0,
              pc |-> "idle", resp |-> "", ss |-> FALSE]
SubsIdle ==
    /\ subs = [rows |-> {}, next |-> 1]
    /\ ureq = NoRequest

\* the indexer's Scheduler has not been started
IndexerIdle ==
    /\ sched = <<>>
    /\ workers = <<>>

\* no metadata has been fetched
FetchIdle == meta = <<>>

\* no poll period has been resolved
PeriodIdle == config = None /\ refresh = NoResult

\* no interval has been created
TimerIdle == timer = <<>>

\* nothing outside the manager has run
Idle == HttpIdle /\ SubsIdle /\ IndexerIdle /\ FetchIdle /\ PeriodIdle /\ TimerIdle

\* the serving process: start() found an empty store and returned Ok, the HTTP
\* server runs (server.rs:43-69)
Init == Constructed /\ boot = Booted({}) /\ Idle

\* the process at boot, before start() is called (server.rs:40)
BootInit == Constructed /\ boot = NotBooted /\ Idle

\* =====================================================================
\* Shutdown::begin, step by step, run by process holding latch t.
\* The three steps are not atomic: the poller runs on another thread.
\* =====================================================================

\* BeginSkips with the early return taken for a Started latch only
BeginSkipsStartedOnly(t) == state[t] = "Started"

\* shutdown.rs:76  if self.is_shutdown() { return; }
BeginSkips(t) == is_shutdown(t)

\* shutdown.rs:80  self.begin.notify_waiters();
BeginNotify(t) == begin' = [begin EXCEPT ![t] = NotifyWaiters(@)]

\* shutdown.rs:83-84  inner.state = ShutdownState::Started;
BeginWrite(t) == state' = [state EXCEPT ![t] = "Started"]

\* shutdown.rs:94  self.complete.notify_waiters();
CompleteNotify(t) == complete' = [complete EXCEPT ![t] = NotifyWaiters(@)]

\* shutdown.rs:97-98  inner.state = ShutdownState::Complete;
CompleteWrite(t) == state' = [state EXCEPT ![t] = "Complete"]

\* =====================================================================
\* Callers (HTTP handlers): register / remove / get
\* =====================================================================

FreeTasks == {t \in Tasks : ppc[t] = "none"}
NewTask == CHOOSE t \in FreeTasks : \A u \in FreeTasks : t <= u

\* a request is served: start() has returned Ok (server.rs:43-48) and the
\* HTTP server has not been stopped (server.rs:52-69, 80)
Serving == boot.phase = "ok" /\ server = "running"

\* the task that runs server::run
Main == CHOOSE c \in Callers : \A d \in Callers : c <= d

\* the call returns v to its caller
Return(c, v) ==
    /\ cpc' = [cpc EXCEPT ![c] = "returned"]
    /\ cret' = [cret EXCEPT ![c] = v]

\* handler h of caller c has not answered yet
Pending(h) == <<"pending", h>>

\* the caller has consumed the result (a handler has answered); its frame is
\* gone
Done(c) ==
    /\ cpc[c] = "returned"
    /\ cop[c] # "start"
    /\ cresp[c][1] # "pending"
    /\ cpc' = [cpc EXCEPT ![c] = "idle"]
    /\ cop' = [cop EXCEPT ![c] = "none"]
    /\ cid' = [cid EXCEPT ![c] = 0]
    /\ ctask' = [ctask EXCEPT ![c] = NoTask]
    /\ cret' = [cret EXCEPT ![c] = NoReturn]
    /\ cinit' = [cinit EXCEPT ![c] = NoReturn]
    /\ cresp' = [cresp EXCEPT ![c] = NoReturn]
    /\ cstore' = [cstore EXCEPT ![c] = NoReturn]
    /\ UNCHANGED <<mgr, rwlock, latch, poller, stopper, boot, server, store, outside>>

\* manager.rs:83-88  what register does with the result r of init: an error is
\* logged, and the log statement unwraps the error's source(), which panics
\* when the error has none; register itself returns ()
RegisterOutcomes(r) == IF r[1] = "Err" THEN {Unit, Panic} ELSE {Unit}

\* init returns r to the function that called it: register (manager.rs:82-89)
\* ends with one of its outcomes; start (manager.rs:58-60) goes on with the
\* next cluster, or returns the error (the `?`)
InitReturn(c, r) ==
    /\ cinit' = [cinit EXCEPT ![c] = r]
    /\ IF cop[c] = "register"
         THEN \E v \in RegisterOutcomes(r) : Return(c, v)
         ELSE IF r[1] = "Ok"
                THEN /\ cpc' = [cpc EXCEPT ![c] = "start_next"]
                     /\ UNCHANGED cret
                ELSE Return(c, r)

\* register(c) -> init(c): the call is made
CallRegister(c, id) ==
    /\ Serving
    /\ cpc[c] = "idle"
    /\ FreeTasks # {}
    /\ cpc' = [cpc EXCEPT ![c] = "init_check"]
    /\ cop' = [cop EXCEPT ![c] = "register"]
    /\ cid' = [cid EXCEPT ![c] = id]
    /\ UNCHANGED <<mgr, rwlock, latch, poller, ctask, cret, cinit, cresp, stopper, env>>

\* manager.rs:115-122  read lock, contains_key, drop; return Ok if it exists
InitCheck(c) ==
    /\ cpc[c] = "init_check"
    /\ CanRead
    /\ IF context[cid[c]] # NoTask
         THEN InitReturn(c, Ok(Unit))
         ELSE /\ cpc' = [cpc EXCEPT ![c] = "init_create"]
              /\ UNCHANGED <<cret, cinit>>
    /\ UNCHANGED <<cop, mgr, rwlock, latch, poller, cid, ctask, cresp, stopper, env>>

\* manager.rs:125-127  KafkaMetadataConsumer::create(&c)?, Shutdown::new(),
\* ConsumerContext { consumer, sd }
InitCreate(c) ==
    /\ cpc[c] = "init_create"
    /\ FreeTasks # {}
    /\ LET t == NewTask IN
         /\ ctask' = [ctask EXCEPT ![c] = t]
         /\ ppc' = [ppc EXCEPT ![t] = "created"]
         /\ cluster' = [cluster EXCEPT ![t] = cid[c]]
    /\ cpc' = [cpc EXCEPT ![c] = "init_insert"]
    /\ UNCHANGED <<cop, mgr, rwlock, latch, result, ticks, cid, cret, cinit, cresp, stopper, env>>

\* manager.rs:125  the `?`: creating the consumer failed, init returns Err
InitCreateFails(c) ==
    /\ cpc[c] = "init_create"
    /\ InitReturn(c, Err("create"))
    /\ UNCHANGED <<cop, mgr, rwlock, latch, poller, cid, ctask, cresp, stopper, env>>

\* InitInsert that puts the context into the map and leaves the cache entry
\* to a later step
InitInsertContextOnly(c) ==
    /\ cpc[c] = "init_insert"
    /\ CanWrite
    /\ context' = [context EXCEPT ![cid[c]] = ctask[c]]
    /\ ppc' = [ppc EXCEPT ![ctask[c]] = "inserted"]
    /\ cpc' = [cpc EXCEPT ![c] = "init_spawn"]
    /\ UNCHANGED <<cop, cache, rwlock, latch, cluster, result, ticks, cid, ctask, cret, cinit, cresp, stopper, env>>

\* manager.rs:130-133  write lock; context.insert; cache.insert(Processing); drop
InitInsert(c) ==
    /\ cpc[c] = "init_insert"
    /\ CanWrite
    /\ context' = [context EXCEPT ![cid[c]] = ctask[c]]
    /\ cache' = [cache EXCEPT ![cid[c]] = Processing]
    /\ ppc' = [ppc EXCEPT ![ctask[c]] = "inserted"]
    /\ cpc' = [cpc EXCEPT ![c] = "init_spawn"]
    /\ UNCHANGED <<cop, rwlock, latch, cluster, result, ticks, cid, ctask, cret, cinit, cresp, stopper, env>>

\* manager.rs:136-138 and 142-148  tokio::spawn(poll); the poller creates its
\* interval, whose first tick is due at once; init returns Ok. When the
\* cluster's configured period is zero, interval() panics and the poller task
\* is gone before its loop starts.
InitSpawn(c) ==
    /\ cpc[c] = "init_spawn"
    /\ \E zero \in BOOLEAN :
         /\ ppc' = [ppc EXCEPT ![ctask[c]] = IF zero THEN "panicked" ELSE "select"]
         /\ ticks' = [ticks EXCEPT ![ctask[c]] = IF zero THEN 0 ELSE 1]
    /\ InitReturn(c, Ok(Unit))
    /\ UNCHANGED <<cop, mgr, rwlock, latch, cluster, result, cid, ctask, cresp, stopper, env>>

\* RemoveLock that also takes the cache entry of id out
RemoveLockDropsEntry(c, id) ==
    /\ Serving
    /\ cpc[c] = "idle"
    /\ CanWrite
    /\ cop' = [cop EXCEPT ![c] = "remove"]
    /\ cid' = [cid EXCEPT ![c] = id]
    /\ ctask' = [ctask EXCEPT ![c] = context[id]]
    /\ context' = [context EXCEPT ![id] = NoTask]
    /\ cache' = [cache EXCEPT ![id] = None]
    /\ cpc' = [cpc EXCEPT ![c] =
          IF context[id] = NoTask \/ BeginSkips(context[id])
            THEN "remove_skip" ELSE "remove_notify"]
    /\ rwlock' = [rwlock EXCEPT !.writer = TRUE]
    /\ UNCHANGED <<latch, poller, cret, cinit, cresp, stopper, env>>

\* manager.rs:95-98 -> shutdown.rs:76  write lock; context.remove(&id); when a
\* context was there, begin() is entered and evaluates is_shutdown()
RemoveLock(c, id) ==
    /\ Serving
    /\ cpc[c] = "idle"
    /\ CanWrite
    /\ cop' = [cop EXCEPT ![c] = "remove"]
    /\ cid' = [cid EXCEPT ![c] = id]
    /\ ctask' = [ctask EXCEPT ![c] = context[id]]
    /\ context' = [context EXCEPT ![id] = NoTask]
    /\ cpc' = [cpc EXCEPT ![c] =
          IF context[id] = NoTask \/ BeginSkips(context[id])
            THEN "remove_skip" ELSE "remove_notify"]
    /\ rwlock' = [rwlock EXCEPT !.writer = TRUE]
    /\ UNCHANGED <<cache, latch, poller, cret, cinit, cresp, stopper, env>>

\* manager.rs:97-100 -> shutdown.rs:76-78  there was no context, or begin()
\* found the latch shut down and returns; the guard drops
RemoveSkip(c) ==
    /\ cpc[c] = "remove_skip"
    /\ rwlock' = [rwlock EXCEPT !.writer = FALSE]
    /\ Return(c, Unit)
    /\ UNCHANGED <<cop, mgr, latch, poller, cid, ctask, cinit, cresp, stopper, env>>

\* manager.rs:98 -> shutdown.rs:80
RemoveNotify(c) ==
    /\ cpc[c] = "remove_notify"
    /\ BeginNotify(ctask[c])
    /\ cpc' = [cpc EXCEPT ![c] = "remove_write"]
    /\ UNCHANGED <<cop, mgr, rwlock, state, complete, poller, cid, ctask, cret, cinit, cresp, stopper, env>>

\* RemoveWrite that also takes the cache entry of the id out
RemoveWriteDropsEntry(c) ==
    /\ cpc[c] = "remove_write"
    /\ BeginWrite(ctask[c])
    /\ cache' = [cache EXCEPT ![cid[c]] = None]
    /\ rwlock' = [rwlock EXCEPT !.writer = FALSE]
    /\ Return(c, Unit)
    /\ UNCHANGED <<cop, context, begin, complete, poller, cid, ctask, cinit, cresp, stopper, env>>

\* manager.rs:98 -> shutdown.rs:83-84, then the guard drops (manager.rs:100)
RemoveWrite(c) ==
    /\ cpc[c] = "remove_write"
    /\ BeginWrite(ctask[c])
    /\ rwlock' = [rwlock EXCEPT !.writer = FALSE]
    /\ Return(c, Unit)
    /\ UNCHANGED <<cop, mgr, begin, complete, poller, cid, ctask, cinit, cresp, stopper, env>>

\* serde's derived Serialize of CachedMetadataEntry (manager.rs:16-22): a unit
\* variant is a JSON string, a variant with a payload a one-key object
Json(e) == IF Len(e) = 1 THEN <<"string", e[1]>> ELSE <<"object", e[1], e[2]>>

\* the entry a JSON body stands for
FromJson(j) == IF j[1] = "string" THEN <<j[2]>> ELSE <<j[2], j[3]>>

\* v1.rs:125-137  the answer of GET /clusters/{id}/metadata to the result r
\* of get(id)
get_cluster_metadata(id, r) ==
    IF r[1] = "Err" THEN <<"500", r[2]>>
    ELSE IF r[2] = None THEN <<"404", id>>
    ELSE <<"200", Json(r[2])>>

\* Get whose answer to an absent entry is 200 with the default entry Unknown
GetDefaultsUnknown(c, id) ==
    /\ Serving
    /\ cpc[c] = "idle"
    /\ CanRead
    /\ cop' = [cop EXCEPT ![c] = "get"]
    /\ cid' = [cid EXCEPT ![c] = id]
    /\ Return(c, Ok(cache[id]))
    /\ cresp' = [cresp EXCEPT ![c] =
          IF cache[id] = None THEN <<"200", Json(<<"Unknown">>)>>
          ELSE get_cluster_metadata(id, Ok(cache[id]))]
    /\ UNCHANGED <<mgr, rwlock, latch, poller, ctask, cinit, stopper, env>>

\* v1.rs:125-137 -> manager.rs:105-107  read lock; cache.get(&id); clone;
\* Ok(..); the handler answers
Get(c, id) ==
    /\ Serving
    /\ cpc[c] = "idle"
    /\ CanRead
    /\ cop' = [cop EXCEPT ![c] = "get"]
    /\ cid' = [cid EXCEPT ![c] = id]
    /\ Return(c, Ok(cache[id]))
    /\ cresp' = [cresp EXCEPT ![c] = get_cluster_metadata(id, Ok(cache[id]))]
    /\ UNCHANGED <<mgr, rwlock, latch, poller, ctask, cinit, stopper, env>>

\* ---- start() called by server::run (manager.rs:52-63, server.rs:43-48) ----

\* manager.rs:56  store.list(None).await? : r is what the store answers
CallStart(c, r) ==
    /\ c = Main
    /\ boot.phase = "new"
    /\ cpc[c] = "idle"
    /\ cop' = [cop EXCEPT ![c] = "start"]
    /\ IF r[1] = "Err"
         THEN /\ Return(c, r)
              /\ boot' = [boot EXCEPT !.phase = "starting"]
         ELSE /\ cpc' = [cpc EXCEPT ![c] = "start_next"]
              /\ boot' = [phase |-> "starting", listed |-> r[2], todo |-> r[2]]
              /\ UNCHANGED cret
    /\ UNCHANGED <<mgr, rwlock, latch, poller, cid, ctask, cinit, cresp, stopper,
                   server, store, cstore, outside>>

\* StartNext that drops the cluster it takes from the list without init
StartNextSkips(c) ==
    /\ cop[c] = "start"
    /\ cpc[c] = "start_next"
    /\ \E id \in boot.todo : boot' = [boot EXCEPT !.todo = @ \ {id}]
    /\ UNCHANGED <<mgr, rwlock, latch, poller, caller, stopper, server, store, cstore, outside>>

\* manager.rs:58-59  for c in clusters { self.clone().init(c).await?; }
StartNext(c) ==
    /\ cop[c] = "start"
    /\ cpc[c] = "start_next"
    /\ \E id \in boot.todo :
         /\ cid' = [cid EXCEPT ![c] = id]
         /\ boot' = [boot EXCEPT !.todo = @ \ {id}]
    /\ cpc' = [cpc EXCEPT ![c] = "init_check"]
    /\ UNCHANGED <<cop, mgr, rwlock, latch, poller, ctask, cret, cinit, cresp, stopper,
                   server, store, cstore, outside>>

\* manager.rs:62  Ok(())
StartReturn(c) ==
    /\ cop[c] = "start"
    /\ cpc[c] = "start_next"
    /\ boot.todo = {}
    /\ Return(c, Ok(Unit))
    /\ UNCHANGED <<cop, mgr, rwlock, latch, poller, cid, ctask, cinit, cresp, stopper, env>>

\* server.rs:43-48  .expect(..): the process goes on to serve when start
\* returned Ok, and panics when it returned an error
StartExpect(c) ==
    /\ cop[c] = "start"
    /\ cpc[c] = "returned"
    /\ boot' = [boot EXCEPT !.phase = IF cret[c][1] = "Ok" THEN "ok" ELSE "failed"]
    /\ cpc' = [cpc EXCEPT ![c] = "idle"]
    /\ cop' = [cop EXCEPT ![c] = "none"]
    /\ cid' = [cid EXCEPT ![c] = 0]
    /\ ctask' = [ctask EXCEPT ![c] = NoTask]
    /\ cret' = [cret EXCEPT ![c] = NoReturn]
    /\ cinit' = [cinit EXCEPT ![c] = NoReturn]
    /\ cresp' = [cresp EXCEPT ![c] = NoReturn]
    /\ UNCHANGED <<mgr, rwlock, latch, poller, stopper, server, store, cstore, outside>>

\* =====================================================================
\* The poller task of context t (manager.rs:141-180)
\* =====================================================================

\* the interval's timer: one more period has elapsed. A period that elapses
\* during a fetch is seen by the poller at its next select, so the timer is
\* advanced while the poller is at the select.
Tick(t) ==
    /\ ppc[t] \in {"select", "waiting"}
    /\ ticks[t] < MaxBacklog
    /\ ticks' = [ticks EXCEPT ![t] = @ + 1]
    /\ UNCHANGED <<mgr, rwlock, latch, ppc, cluster, result, caller, stopper, env>>

\* PollTick that takes the write lock before the fetch and keeps it
PollTickLocks(t) ==
    /\ ppc[t] \in {"select", "waiting"}
    /\ ticks[t] > 0
    /\ CanWrite
    /\ rwlock' = [rwlock EXCEPT !.writer = TRUE]
    /\ ticks' = [ticks EXCEPT ![t] = @ - 1]
    /\ begin' = [begin EXCEPT ![t] = Drop(@, "poller")]
    /\ ppc' = [ppc EXCEPT ![t] = "fetch"]
    /\ UNCHANGED <<mgr, state, complete, cluster, result, caller, stopper, env>>

\* manager.rs:151-152  select!: a tick is due, the tick branch runs and the
\* wait_begin future is dropped
PollTick(t) ==
    /\ ppc[t] \in {"select", "waiting"}
    /\ ticks[t] > 0
    /\ ticks' = [ticks EXCEPT ![t] = @ - 1]
    /\ begin' = [begin EXCEPT ![t] = Drop(@, "poller")]
    /\ ppc' = [ppc EXCEPT ![t] = "fetch"]
    /\ UNCHANGED <<mgr, rwlock, state, complete, cluster, result, caller, stopper, env>>

\* manager.rs:151,171 -> shutdown.rs:69  select!: nothing is ready; the
\* Notified future of wait_begin is registered and the task suspends
PollWait(t) ==
    /\ ppc[t] = "select"
    /\ ticks[t] = 0
    /\ begin' = [begin EXCEPT ![t] = Register(@, "poller")]
    /\ ppc' = [ppc EXCEPT ![t] = "waiting"]
    /\ UNCHANGED <<mgr, rwlock, state, complete, cluster, result, ticks, caller, stopper, env>>

\* manager.rs:155  fetch_meta().await returns
PollFetch(t, r) ==
    /\ ppc[t] = "fetch"
    /\ result' = [result EXCEPT ![t] = r]
    /\ ppc' = [ppc EXCEPT ![t] = "store"]
    /\ UNCHANGED <<mgr, rwlock, latch, cluster, ticks, caller, stopper, env>>

\* the entry a fetch result becomes (manager.rs:157,161 and 165,169)
EntryOf(id, r) == IF r[1] = "Err" THEN Failed(FormatError(id, r)) ELSE Meta(r[2])

\* PollStore with the fetch error propagated: the poller ends without
\* publishing the failure
PollStoreErrFatal(t) ==
    /\ ppc[t] = "store"
    /\ CanWrite
    /\ IF result[t][1] = "Err"
         THEN /\ ppc' = [ppc EXCEPT ![t] = "done"]
              /\ UNCHANGED cache
         ELSE /\ ppc' = [ppc EXCEPT ![t] = "select"]
              /\ cache' = [cache EXCEPT ![cluster[t]] = Meta(result[t][2])]
    /\ result' = [result EXCEPT ![t] = NoResult]
    /\ UNCHANGED <<context, rwlock, latch, cluster, ticks, caller, stopper, env>>

\* manager.rs:160-162 and 168-169  write lock; cache.insert; next iteration
PollStore(t) ==
    /\ ppc[t] = "store"
    /\ CanWrite
    /\ cache' = [cache EXCEPT ![cluster[t]] = EntryOf(cluster[t], result[t])]
    /\ result' = [result EXCEPT ![t] = NoResult]
    /\ ppc' = [ppc EXCEPT ![t] = "select"]
    /\ UNCHANGED <<context, rwlock, latch, cluster, ticks, caller, stopper, env>>

\* manager.rs:171-174  the wait_begin branch: the Notified future was woken
PollBegin(t) ==
    /\ ppc[t] = "waiting"
    /\ "poller" \in begin[t].notified
    /\ begin' = [begin EXCEPT ![t] = Drop(@, "poller")]
    /\ ppc' = [ppc EXCEPT ![t] = "complete"]
    /\ UNCHANGED <<mgr, rwlock, state, complete, cluster, result, ticks, caller, stopper, env>>

\* manager.rs:175 -> shutdown.rs:94
PollCompleteNotify(t) ==
    /\ ppc[t] = "complete"
    /\ CompleteNotify(t)
    /\ ppc' = [ppc EXCEPT ![t] = "complete_write"]
    /\ UNCHANGED <<mgr, rwlock, state, begin, cluster, result, ticks, caller, stopper, env>>

\* PollCompleteWrite without the break: the loop goes on to its next select
PollCompleteWriteLoops(t) ==
    /\ ppc[t] = "complete_write"
    /\ CompleteWrite(t)
    /\ ppc' = [ppc EXCEPT ![t] = "select"]
    /\ UNCHANGED <<mgr, rwlock, begin, complete, cluster, result, ticks, caller, stopper, env>>

\* manager.rs:175-176 -> shutdown.rs:97-98, then break: the task ends
PollCompleteWrite(t) ==
    /\ ppc[t] = "complete_write"
    /\ CompleteWrite(t)
    /\ ppc' = [ppc EXCEPT ![t] = "done"]
    /\ ticks' = [ticks EXCEPT ![t] = 0]
    /\ UNCHANGED <<mgr, rwlock, begin, complete, cluster, result, caller, stopper, env>>

\* =====================================================================
\* The shutdown task (server.rs:71-82): on ctrl-c it calls stop()
\* (manager.rs:65-78), whose read guard lives until stop returns, and then
\* stops the HTTP server
\* =====================================================================

\* server.rs:73-77 -> manager.rs:69-70  ctrl-c; read lock; state.context.values()
StopLock ==
    /\ boot.phase = "ok"
    /\ spc = "idle"
    /\ CanRead
    /\ rwlock' = [rwlock EXCEPT !.readers = @ + 1]
    /\ stodo' = {context[i] : i \in Ids} \ {NoTask}
    /\ spc' = "iterate"
    /\ UNCHANGED <<mgr, latch, poller, caller, scur, env>>

\* manager.rs:72-73 -> shutdown.rs:76  next context of the iterator
StopNext ==
    /\ spc = "iterate"
    /\ stodo # {}
    /\ \E t \in stodo :
         /\ scur' = t
         /\ stodo' = stodo \ {t}
         /\ spc' = IF BeginSkips(t) THEN "wait_complete" ELSE "begin_notify"
    /\ UNCHANGED <<mgr, rwlock, latch, poller, caller, env>>

\* manager.rs:73 -> shutdown.rs:80
StopNotify ==
    /\ spc = "begin_notify"
    /\ BeginNotify(scur)
    /\ spc' = "begin_write"
    /\ UNCHANGED <<mgr, rwlock, state, complete, poller, caller, stodo, scur, env>>

\* manager.rs:73 -> shutdown.rs:83-84
StopWrite ==
    /\ spc = "begin_write"
    /\ BeginWrite(scur)
    /\ spc' = "wait_complete"
    /\ UNCHANGED <<mgr, rwlock, begin, complete, poller, caller, stodo, scur, env>>

\* manager.rs:74 -> shutdown.rs:89  the Notified future is registered
StopWait ==
    /\ spc = "wait_complete"
    /\ complete' = [complete EXCEPT ![scur] = Register(@, "stop")]
    /\ spc' = "waiting"
    /\ UNCHANGED <<mgr, rwlock, state, begin, poller, caller, stodo, scur, env>>

\* manager.rs:74  wait_complete().await returns
StopWoken ==
    /\ spc = "waiting"
    /\ "stop" \in complete[scur].notified
    /\ complete' = [complete EXCEPT ![scur] = Drop(@, "stop")]
    /\ spc' = "iterate"
    /\ UNCHANGED <<mgr, rwlock, state, begin, poller, caller, stodo, scur, env>>

\* manager.rs:75-78  the iterator is exhausted; the guard drops; stop returns
StopReturn ==
    /\ spc = "iterate"
    /\ stodo = {}
    /\ rwlock' = [rwlock EXCEPT !.readers = @ - 1]
    /\ spc' = "done"
    /\ scur' = NoTask
    /\ UNCHANGED <<mgr, latch, poller, caller, stodo, env>>

\* server.rs:80  server_handle.stop(true): the server accepts no new
\* connection; requests under way are served to their end
ServerStop ==
    /\ spc = "done"
    /\ server = "running"
    /\ server' = "stopped"
    /\ UNCHANGED <<mgr, rwlock, latch, poller, caller, stopper, boot, store, cstore, outside>>

\* =====================================================================

InitStep(c) ==
    \/ InitCheck(c) \/ InitCreate(c) \/ InitCreateFails(c)
    \/ InitInsert(c) \/ InitSpawn(c)

CallerStep(c) ==
    \/ InitStep(c)
    \/ RemoveSkip(c) \/ RemoveNotify(c) \/ RemoveWrite(c) \/ Done(c)

StartStep(c) ==
    \/ StartNext(c) \/ StartReturn(c) \/ StartExpect(c)

PollerStep(t) ==
    \/ PollTick(t) \/ PollWait(t) \/ PollStore(t)
    \/ PollBegin(t) \/ PollCompleteNotify(t) \/ PollCompleteWrite(t)

StopStep ==
    \/ StopNext \/ StopNotify \/ StopWrite \/ StopWait \/ StopWoken \/ StopReturn

Next ==
    \/ \E c \in Callers, id \in RequestIds : CallRegister(c, id)
    \/ \E c \in Callers, id \in RequestIds : RemoveLock(c, id)
    \/ \E c \in Callers, id \in RequestIds : Get(c, id)
    \/ \E c \in Callers : CallerStep(c)
    \/ \E t \in Tasks : Tick(t)
    \/ \E t \in Tasks, r \in FetchResults : PollFetch(t, r)
    \/ \E t \in Tasks : PollerStep(t)
    \/ StopLock
    \/ StopStep
    \/ ServerStop

Spec == Init /\ [][Next]_vars

\* the process from boot to shutdown with no request: start() over the store,
\* the pollers it spawns, and the shutdown task
BootNext ==
    \/ \E c \in Callers, r \in ListResults : CallStart(c, r)
    \/ \E c \in Callers : StartStep(c)
    \/ \E c \in Callers : InitStep(c)
    \/ \E t \in Tasks : Tick(t)
    \/ \E t \in Tasks, r \in FetchResults : PollFetch(t, r)
    \/ \E t \in Tasks : PollerStep(t)
    \/ StopLock
    \/ StopStep
    \/ ServerStop

BootSpec == BootInit /\ [][BootNext]_vars

\* =====================================================================
\* The cluster endpoints POST /clusters and DELETE /clusters/{id}
\* (clusters/endpoints/v1.rs) over the cluster store (clusters/store.rs)
\* =====================================================================

\* store.rs:173-191  insert: the generator issues the id, then the row is
\* written; the query may fail
StoreInsert(ok) ==
    [rows |-> IF ok THEN store.rows \cup {store.next} ELSE store.rows,
     next |-> store.next + 1]

\* store.rs:205-211  remove: DELETE ... WHERE id = ?; the query may fail
StoreRemove(id, ok) ==
    [store EXCEPT !.rows = IF ok THEN @ \ {id} ELSE @]

\* v1.rs:27-39  create_cluster: store.insert(&cluster).await; Ok(id) goes on
\* to metadata_service.register(Cluster { id, ..cluster }), Err(e) answers
\* 500 with the error as body
CreateCluster(c, ok) ==
    /\ Serving
    /\ cpc[c] = "idle"
    /\ FreeTasks # {}
    /\ store.next <= MaxId
    /\ store' = StoreInsert(ok)
    /\ cstore' = [cstore EXCEPT ![c] = IF ok THEN Ok(store.next) ELSE Err("insert")]
    /\ IF ok
         THEN /\ cpc' = [cpc EXCEPT ![c] = "init_check"]
              /\ cop' = [cop EXCEPT ![c] = "register"]
              /\ cid' = [cid EXCEPT ![c] = store.next]
              /\ cresp' = [cresp EXCEPT ![c] = Pending("post")]
         ELSE /\ cpc' = [cpc EXCEPT ![c] = "returned"]
              /\ cresp' = [cresp EXCEPT ![c] = <<"500", "insert">>]
              /\ UNCHANGED <<cop, cid>>
    /\ UNCHANGED <<mgr, rwlock, latch, poller, ctask, cret, cinit, stopper, boot, server,
                   outside>>

\* v1.rs:32-36  register has returned: HttpResponse::Ok().json(
\* CreateClusterResponse { id }); when register panicked the handler is gone
\* without an answer
CreateRespond(c) ==
    /\ cresp[c] = Pending("post")
    /\ cpc[c] = "returned"
    /\ cresp' = [cresp EXCEPT ![c] =
          IF cret[c] = Panic THEN Panic ELSE <<"200", cstore[c][2]>>]
    /\ UNCHANGED <<mgr, rwlock, latch, poller, cop, cpc, cid, ctask, cret, cinit, stopper, env>>

\* DeleteCluster that goes on to the manager's remove whatever the store
\* answered
DeleteClusterAlwaysRemoves(c, id, ok) ==
    /\ Serving
    /\ cpc[c] = "idle"
    /\ store' = StoreRemove(id, ok)
    /\ cstore' = [cstore EXCEPT ![c] = IF ok THEN Ok(id) ELSE Err("remove")]
    /\ cpc' = [cpc EXCEPT ![c] = "remove_call"]
    /\ cop' = [cop EXCEPT ![c] = "remove"]
    /\ cid' = [cid EXCEPT ![c] = id]
    /\ cresp' = [cresp EXCEPT ![c] = Pending("delete")]
    /\ UNCHANGED <<mgr, rwlock, latch, poller, ctask, cret, cinit, stopper, boot, server,
                   outside>>

\* v1.rs:104-114  delete_cluster: store.remove(id).await; Ok(_) goes on to
\* metadata_service.remove(id), Err(e) answers 500 with the error as body
DeleteCluster(c, id, ok) ==
    /\ Serving
    /\ cpc[c] = "idle"
    /\ store' = StoreRemove(id, ok)
    /\ cstore' = [cstore EXCEPT ![c] = IF ok THEN Ok(id) ELSE Err("remove")]
    /\ cid' = [cid EXCEPT ![c] = id]
    /\ IF ok
         THEN /\ cpc' = [cpc EXCEPT ![c] = "remove_call"]
              /\ cop' = [cop EXCEPT ![c] = "remove"]
              /\ cresp' = [cresp EXCEPT ![c] = Pending("delete")]
         ELSE /\ cpc' = [cpc EXCEPT ![c] = "returned"]
              /\ cresp' = [cresp EXCEPT ![c] = <<"500", "remove">>]
              /\ UNCHANGED cop
    /\ UNCHANGED <<mgr, rwlock, latch, poller, ctask, cret, cinit, stopper, boot, server,
                   outside>>

\* DeleteRemove that clears the whole context map
DeleteRemoveClearsMap(c) ==
    /\ cpc[c] = "remove_call"
    /\ CanWrite
    /\ ctask' = [ctask EXCEPT ![c] = context[cid[c]]]
    /\ context' = [id \in Ids |-> NoTask]
    /\ cpc' = [cpc EXCEPT ![c] =
          IF context[cid[c]] = NoTask \/ BeginSkips(context[cid[c]])
            THEN "remove_skip" ELSE "remove_notify"]
    /\ rwlock' = [rwlock EXCEPT !.writer = TRUE]
    /\ UNCHANGED <<cache, latch, poller, cop, cid, cret, cinit, cresp, stopper, env>>

\* v1.rs:108 -> manager.rs:95-98 -> shutdown.rs:76  the remove(id) of the
\* handler: write lock; context.remove(&id); begin() is entered
DeleteRemove(c) ==
    /\ cpc[c] = "remove_call"
    /\ CanWrite
    /\ ctask' = [ctask EXCEPT ![c] = context[cid[c]]]
    /\ context' = [context EXCEPT ![cid[c]] = NoTask]
    /\ cpc' = [cpc EXCEPT ![c] =
          IF context[cid[c]] = NoTask \/ BeginSkips(context[cid[c]])
            THEN "remove_skip" ELSE "remove_notify"]
    /\ rwlock' = [rwlock EXCEPT !.writer = TRUE]
    /\ UNCHANGED <<cache, latch, poller, cop, cid, cret, cinit, cresp, stopper, env>>

\* v1.rs:109  remove has returned: HttpResponse::Ok().finish()
DeleteRespond(c) ==
    /\ cresp[c] = Pending("delete")
    /\ cpc[c] = "returned"
    /\ cresp' = [cresp EXCEPT ![c] = <<"200", "">>]
    /\ UNCHANGED <<mgr, rwlock, latch, poller, cop, cpc, cid, ctask, cret, cinit, stopper, env>>

HandlerStep(c) ==
    \/ CreateRespond(c) \/ DeleteRemove(c) \/ DeleteRespond(c)

\* the serving process seen from the cluster endpoints: POST and DELETE
\* requests, the manager calls they make and the pollers, over a time shorter
\* than a poll period (each poller has its first tick only)
HttpNext ==
    \/ \E c \in Callers, ok \in BOOLEAN : CreateCluster(c, ok)
    \/ \E c \in Callers, id \in Ids, ok \in BOOLEAN : DeleteCluster(c, id, ok)
    \/ \E c \in Callers : HandlerStep(c)
    \/ \E c \in Callers : CallerStep(c)
    \/ \E t \in Tasks, r \in FetchResults : PollFetch(t, r)
    \/ \E t \in Tasks : PollerStep(t)

HttpSpec == Init /\ [][HttpNext]_vars

\* =====================================================================
\* The subscription endpoints (subscriptions/endpoints/v1.rs) over the
\* cluster store and the subscription store (subscriptions/store.rs).
\* A subscription row is <<cluster_id, id, topic_name>>.
\* =====================================================================

\* the frame of a handler that starts at position pc on a request
Request(op, cl, id, tp, pc) ==
    [op |-> op, cluster |-> cl, id |-> id, topic |-> tp,
     pc |-> pc, resp |-> "", ss |-> FALSE]

\* v1.rs:21-29  create_subscription: cluster_exist(r.cluster_id, cs) first
CreateSubscription(cl, tp) ==
    /\ ureq.pc = "idle"
    /\ ureq' = Request("create", cl, 0, tp, "exist")
    /\ UNCHANGED <<process, subs, indexer, meta, period, timer>>

\* v1.rs:48-60  get_subscriptions: cluster_exist(cluster_id, cs) first
GetSubscriptions(cl) ==
    /\ ureq.pc = "idle"
    /\ ureq' = Request("list", cl, 0, 0, "exist")
    /\ UNCHANGED <<process, subs, indexer, meta, period, timer>>

\* v1.rs:82-94  get_subscription: cluster_exist(cluster_id, cs) first
GetSubscription(cl, id) ==
    /\ ureq.pc = "idle"
    /\ ureq' = Request("get", cl, id, 0, "exist")
    /\ UNCHANGED <<process, subs, indexer, meta, period, timer>>

\* v1.rs:118-131  update_subscription: cluster_exist(cluster_id, cs) first
UpdateSubscription(cl, id, tp) ==
    /\ ureq.pc = "idle"
    /\ ureq' = Request("update", cl, id, tp, "exist")
    /\ UNCHANGED <<process, subs, indexer, meta, period, timer>>

\* v1.rs:150-161  delete_subscription: no cluster_exist; ss.remove is the
\* first call
DeleteSubscription(cl, id) ==
    /\ ureq.pc = "idle"
    /\ ureq' = Request("delete", cl, id, 0, "store")
    /\ UNCHANGED <<process, subs, indexer, meta, period, timer>>

\* the handler answers status and is done; called tells whether it has called
\* the subscription store
Answer(status, called) ==
    ureq' = [ureq EXCEPT !.pc = "done", !.resp = status, !.ss = called]

\* v1.rs:167-173 and 29-37  cluster_exist: cs.get(cluster_id).await? is an
\* error (500), or tells whether the cluster is in the store (404 when not)
ClusterExist(ok) ==
    /\ ureq.pc = "exist"
    /\ IF ~ok THEN Answer("500", FALSE)
       ELSE IF ureq.cluster \notin store.rows THEN Answer("404", FALSE)
       ELSE ureq' = [ureq EXCEPT !.pc = "store"]
    /\ UNCHANGED <<process, subs, indexer, meta, period, timer>>

\* the rows of the subscription store with key <<cl, id>>
RowsOf(cl, id) == {r \in subs.rows : r[1] = cl /\ r[2] = id}

\* store.rs:200-220  insert: the generator issues the id, then the row is
\* written
SubsInsert(cl, tp) ==
    [rows |-> subs.rows \cup {<<cl, subs.next, tp>>}, next |-> subs.next + 1]

\* store.rs:222-232  update: the UPDATE statement writes the row of the key
SubsUpdate(cl, id, tp) ==
    [subs EXCEPT !.rows = (@ \ RowsOf(cl, id)) \cup {<<cl, id, tp>>}]

\* store.rs:234-240  remove: the DELETE statement takes the row of the key out
SubsRemove(cl, id) ==
    [subs EXCEPT !.rows = @ \ RowsOf(cl, id)]

\* v1.rs:42-45, 70-79, 104-115, 144-147, 161-164  the call of the
\* subscription store and the answer: 500 when the query fails, 404 when
\* get finds no row, 200 otherwise
SubsStore(ok) ==
    /\ ureq.pc = "store"
    /\ ureq.op = "create" => subs.next <= MaxSub
    /\ IF ~ok
         THEN /\ Answer("500", TRUE)
              /\ subs' = IF ureq.op = "create"
                            THEN [subs EXCEPT !.next = @ + 1] ELSE subs
         ELSE /\ subs' = CASE ureq.op = "create" -> SubsInsert(ureq.cluster, ureq.topic)
                            [] ureq.op = "update" ->
                                 SubsUpdate(ureq.cluster, ureq.id, ureq.topic)
                            [] ureq.op = "delete" -> SubsRemove(ureq.cluster, ureq.id)
                            [] OTHER -> subs
              /\ Answer(IF ureq.op = "get" /\ RowsOf(ureq.cluster, ureq.id) = {}
                           THEN "404" ELSE "200", TRUE)
    /\ UNCHANGED <<process, indexer, meta, period, timer>>

\* the answer is sent; the handler's frame is gone
SubsDone ==
    /\ ureq.pc = "done"
    /\ ureq' = NoRequest
    /\ UNCHANGED <<process, subs, indexer, meta, period, timer>>

\* subscriptions left by earlier requests: subscription i of cluster i
StoredSubs == {<<i, i, 1>> : i \in Ids}

\* the stores as earlier requests left them: any clusters, and subscriptions
\* of clusters that may have been deleted since (delete_cluster removes no
\* subscription, clusters/endpoints/v1.rs:98-115)
SubsInit ==
    /\ Constructed /\ boot = Booted({})
    /\ cstore = [c \in Callers |-> NoReturn]
    /\ \E S \in SUBSET Ids : store = [rows |-> S, next |-> MaxId + 1]
    /\ \E R \in SUBSET StoredSubs : subs = [rows |-> R, next |-> MaxId + 1]
    /\ ureq = NoRequest
    /\ IndexerIdle /\ FetchIdle /\ PeriodIdle /\ TimerIdle

SubsNext ==
    \/ \E cl \in Ids, tp \in Topics : CreateSubscription(cl, tp)
    \/ \E cl \in Ids : GetSubscriptions(cl)
    \/ \E cl \in Ids, id \in SubIds : GetSubscription(cl, id)
    \/ \E cl \in Ids, id \in SubIds, tp \in Topics : UpdateSubscription(cl, id, tp)
    \/ \E cl \in Ids, id \in SubIds : DeleteSubscription(cl, id)
    \/ \E ok \in BOOLEAN : ClusterExist(ok)
    \/ \E ok \in BOOLEAN : SubsStore(ok)
    \/ SubsDone

SubsSpec == SubsInit /\ [][SubsNext]_vars

\* =====================================================================
\* The indexer process (indexer.rs): run spawns the scheduler task, which
\* calls Scheduler::start, and the shutdown task, which calls
\* Scheduler::stop on ctrl-c; start spawns one StreamsService worker per
\* subscription (kafka/streams/service.rs)
\* =====================================================================

\* indexer.rs:63-75  Scheduler::new: no worker, the state lock free; neither
\* task of run has called the scheduler
NewScheduler ==
    [lock |-> "free", start |-> "new", stop |-> "new", todo |-> {},
     clusters |-> {}, ret |-> NoReturn, run |-> "running", calls |-> 0]

\* State.workers is empty and no worker task exists; task[w] is the task of
\* the service State.workers holds for w, old[w] counts the running tasks of
\* services that a later insert put out of State.workers
NoWorkers ==
    [map |-> {}, task |-> [w \in SubIds |-> "none"], old |-> [w \in SubIds |-> 0]]

\* the cluster ids of the subscription rows R
ClusterIdsOf(R) == {r[1] : r \in R}

\* indexer.rs:81  let mut state = self.state.write().await;
SchedulerStart ==
    /\ sched.run = "running"
    /\ sched.start = "new"
    /\ sched.lock = "free"
    /\ sched' = [sched EXCEPT !.lock = "write", !.start = "list_subs", !.calls = 1]
    /\ UNCHANGED <<process, subsc, workers, meta, period, timer>>

\* indexer.rs:77-81  start() called once more on the same scheduler, after
\* the call before it has returned and dropped its guard (a call made earlier
\* waits at state.write().await until then): nothing looks at State.workers
SchedulerStartAgain ==
    /\ sched.run = "running"
    /\ sched.start = "returned"
    /\ sched.calls < MaxStarts
    /\ sched.lock = "free"
    /\ sched' = [sched EXCEPT !.lock = "write", !.start = "list_subs",
                              !.ret = NoReturn, !.calls = @ + 1]
    /\ UNCHANGED <<process, subsc, workers, meta, period, timer>>

\* indexer.rs:84  self.ss.list(None).await? : an error is returned (the
\* guard drops), otherwise the subscriptions are the ones to go through
SchedulerListSubs(ok) ==
    /\ sched.run = "running"
    /\ sched.start = "list_subs"
    /\ sched' = IF ok THEN [sched EXCEPT !.start = "list_clusters", !.todo = subs.rows]
                 ELSE [sched EXCEPT !.start = "returned", !.lock = "free",
                                    !.ret = Err("list")]
    /\ UNCHANGED <<process, subsc, workers, meta, period, timer>>

\* indexer.rs:85-92  self.cs.list(Some(ids)).await? collected into a map: the
\* clusters of the store among the cluster ids of the subscriptions
SchedulerListClusters(ok) ==
    /\ sched.run = "running"
    /\ sched.start = "list_clusters"
    /\ sched' = IF ok THEN [sched EXCEPT !.start = "loop",
                               !.clusters = store.rows \cap ClusterIdsOf(sched.todo)]
                 ELSE [sched EXCEPT !.start = "returned", !.lock = "free",
                                    !.todo = {}, !.ret = Err("list")]
    /\ UNCHANGED <<process, subsc, workers, meta, period, timer>>

\* indexer.rs:94-107  one turn of `for sub in subs`: clusters.get(
\* &sub.cluster_id).expect(..) panics the scheduler task when the cluster is
\* not in the map (the guard drops while unwinding); otherwise the service
\* goes into State.workers and its start() is spawned
SchedulerSpawn ==
    /\ sched.run = "running"
    /\ sched.start = "loop"
    /\ \E sub \in sched.todo :
         IF sub[1] \notin sched.clusters
           THEN /\ sched' = [sched EXCEPT !.start = "panicked", !.lock = "free",
                                          !.ret = Panic]
                /\ UNCHANGED workers
           ELSE /\ sched' = [sched EXCEPT !.todo = @ \ {sub}]
                /\ workers' = [map |-> workers.map \cup {sub[2]},
                               task |-> [workers.task EXCEPT ![sub[2]] = "awake"],
                               old |-> [workers.old EXCEPT ![sub[2]] =
                                          IF sub[2] \in workers.map THEN @ + 1 ELSE @]]
    /\ UNCHANGED <<process, subsc, meta, period, timer>>

\* indexer.rs:109  Ok(()); the guard drops
SchedulerReturn ==
    /\ sched.run = "running"
    /\ sched.start = "loop"
    /\ sched.todo = {}
    /\ sched' = [sched EXCEPT !.start = "returned", !.lock = "free", !.ret = Ok(Unit)]
    /\ UNCHANGED <<process, subsc, workers, meta, period, timer>>

\* service.rs:46-47  the worker's loop: sleep(1100 ms).await
WorkerSleep(w) ==
    /\ sched.run = "running"
    /\ workers.task[w] = "awake"
    /\ workers' = [workers EXCEPT !.task[w] = "asleep"]
    /\ UNCHANGED <<process, subsc, sched, meta, period, timer>>

\* service.rs:47-49  the sleep is over; info!; next turn of the loop. The
\* loop has no exit and looks at no latch.
WorkerWake(w) ==
    /\ sched.run = "running"
    /\ workers.task[w] = "asleep"
    /\ workers' = [workers EXCEPT !.task[w] = "awake"]
    /\ UNCHANGED <<process, subsc, sched, meta, period, timer>>

\* indexer.rs:39-43 and 116-119  ctrl-c; Scheduler::stop: state.read().await,
\* state.workers.values(), then todo!(), which panics the shutdown task (the
\* guard drops while unwinding)
SchedulerStop ==
    /\ sched.run = "running"
    /\ sched.stop = "new"
    /\ sched.lock = "free"
    /\ sched' = [sched EXCEPT !.stop = "panicked"]
    /\ UNCHANGED <<process, subsc, workers, meta, period, timer>>

\* indexer.rs:47  try_join!(scheduler_task, shutdown_task).expect(..): a
\* task that panicked makes run panic; the runtime is dropped and every
\* worker task with it
RunJoin ==
    /\ sched.run = "running"
    /\ sched.start = "panicked" \/ sched.stop = "panicked"
    /\ sched' = [sched EXCEPT !.run = "panicked"]
    /\ workers' = [workers EXCEPT !.task = [w \in SubIds |->
                       IF workers.task[w] = "none" THEN "none" ELSE "killed"],
                                  !.old = [w \in SubIds |-> 0]]
    /\ UNCHANGED <<process, subsc, meta, period, timer>>

\* subscription stores the indexer can find: every subscription id is the
\* key of at most one row
IndexerRows ==
    {R \in SUBSET {<<cl, i, 1>> : cl \in Ids, i \in SubIds} :
        \A r, q \in R : r[2] = q[2] => r = q}

\* indexer.rs:25-27  the stores as the server process left them, a new
\* Scheduler; the server process is not part of the indexer
IndexerInit ==
    /\ Constructed /\ boot = NotBooted
    /\ cstore = [c \in Callers |-> NoReturn]
    /\ \E S \in SUBSET Ids : store = [rows |-> S, next |-> MaxId + 1]
    /\ \E R \in IndexerRows : subs = [rows |-> R, next |-> MaxSub + 1]
    /\ ureq = NoRequest
    /\ sched = NewScheduler
    /\ workers = NoWorkers
    /\ FetchIdle /\ PeriodIdle /\ TimerIdle

IndexerNext ==
    \/ SchedulerStart
    \/ SchedulerStartAgain
    \/ \E ok \in BOOLEAN : SchedulerListSubs(ok)
    \/ \E ok \in BOOLEAN : SchedulerListClusters(ok)
    \/ SchedulerSpawn
    \/ SchedulerReturn
    \/ \E w \in SubIds : WorkerSleep(w)
    \/ \E w \in SubIds : WorkerWake(w)
    \/ SchedulerStop
    \/ RunJoin

IndexerSpec == IndexerInit /\ [][IndexerNext]_vars

\* =====================================================================
\* KafkaMetadataConsumer::fetch_meta (kafka/metadata/consumer.rs:57-131)
\* over what the cluster reports. A String is a sequence of letters; a
\* broker is [id, host], a topic [name, partitions], a partition [id], a
\* group [name] (kafka/metadata/mod.rs).
\* =====================================================================

\* the sequences over S of length lo..hi
SeqsOf(S, lo, hi) == UNION {[1..n -> S] : n \in lo..hi}

Names == SeqsOf(1..MaxChar, 1, MaxNameLen)

\* Ord for String: a < b in byte-wise lexicographic order
StrLess(a, b) ==
    \/ Len(a) < Len(b) /\ \A i \in 1..Len(a) : a[i] = b[i]
    \/ \E i \in 1..Len(a) :
          /\ i <= Len(b)
          /\ a[i] < b[i]
          /\ \A j \in 1..(i - 1) : a[j] = b[j]

\* the closures given to sort_by (consumer.rs:71, 93, 101, 124): a is
\* Greater than b under the key
Greater(key, a, b) ==
    CASE key = "host" -> StrLess(b.host, a.host)
      [] key = "name" -> StrLess(b.name, a.name)
      [] key = "id" -> b.id < a.id

\* slice::sort_by: a stable sort; x goes behind the elements that are not
\* Greater than it
RECURSIVE sort_by(_, _)
sort_by(s, key) ==
    IF s = <<>> THEN <<>>
    ELSE LET front == sort_by(SubSeq(s, 1, Len(s) - 1), key)
             x == s[Len(s)]
             n == Cardinality({i \in 1..Len(front) : ~Greater(key, front[i], x)})
         IN SubSeq(front, 1, n) \o <<x>> \o SubSeq(front, n + 1, Len(front))

\* fetch_meta with the partitions of a topic left in the order reported
fetch_meta_partitions_as_reported(raw) ==
    [brokers |-> sort_by(raw.brokers, "host"),
     groups |-> sort_by(raw.groups, "name"),
     topics |-> sort_by(raw.topics, "name")]

\* consumer.rs:61-130  the ClusterMetadata built from the metadata raw
fetch_meta(raw) ==
    [brokers |-> sort_by(raw.brokers, "host"),
     groups |-> sort_by(raw.groups, "name"),
     topics |-> sort_by([i \in 1..Len(raw.topics) |->
                            [name |-> raw.topics[i].name,
                             partitions |-> sort_by(raw.topics[i].partitions, "id")]],
                        "name")]

\* what a cluster can report: the brokers (ids in the order reported), the
\* topics with their partitions (each partition id once), the groups
RawBrokers ==
    {[i \in 1..Len(h) |-> [id |-> i, host |-> h[i]]] : h \in SeqsOf(Names, 0, MaxList)}
RawPartitions ==
    {[i \in 1..Len(p) |-> [id |-> p[i]]] :
        p \in {q \in SeqsOf(0..(MaxList - 1), 0, MaxList) :
                 \A i, j \in 1..Len(q) : q[i] = q[j] => i = j}}
RawTopics ==
    SeqsOf([name : Names, partitions : RawPartitions], 0, MaxList)
RawGroups ==
    {[i \in 1..Len(g) |-> [name |-> g[i]]] : g \in SeqsOf(Names, 0, MaxList)}

\* consumer.rs:58-59, 103-104  a fetch: the metadata request or the group
\* list request fails (the `?`), or the ClusterMetadata is returned
FetchMeta(ok) ==
    /\ meta.out = NoResult
    /\ meta' = [meta EXCEPT !.out = IF ok THEN Ok(fetch_meta(meta.raw))
                                    ELSE Err("timeout")]
    /\ UNCHANGED <<process, subsc, indexer, period, timer>>

\* the consumer is used for the next fetch
FetchDone ==
    /\ meta.out # NoResult
    /\ meta' = [meta EXCEPT !.out = NoResult]
    /\ UNCHANGED <<process, subsc, indexer, period, timer>>

\* a consumer of a cluster that reports raw
FetchInit ==
    /\ Constructed /\ boot = Booted({})
    /\ HttpIdle /\ SubsIdle /\ IndexerIdle /\ PeriodIdle /\ TimerIdle
    /\ \E b \in RawBrokers, t \in RawTopics, g \in RawGroups :
         meta = [raw |-> [brokers |-> b, topics |-> t, groups |-> g],
                 out |-> NoResult]

FetchNext ==
    \/ \E ok \in BOOLEAN : FetchMeta(ok)
    \/ FetchDone

FetchSpec == FetchInit /\ [][FetchNext]_vars

\* =====================================================================
\* The poll period (manager.rs:142-147): the configured
\* "metadata.poll.interval.ms" (kafka/mod.rs:7), a String, parsed as u64
\* =====================================================================

\* Option<&String> of cluster.config.get(..)
Some(v) == <<"Some", v>>

Digits == {"0", "1", "2", "3", "4", "5", "6", "7", "8", "9"}

\* char::to_digit(10) of a decimal digit
DigitOf(c) ==
    CASE c = "0" -> 0 [] c = "1" -> 1 [] c = "2" -> 2 [] c = "3" -> 3
      [] c = "4" -> 4 [] c = "5" -> 5 [] c = "6" -> 6 [] c = "7" -> 7
      [] c = "8" -> 8 [] c = "9" -> 9

\* u64::MAX = 18446744073709551615, digit by digit
U64MaxDigits == <<1, 8, 4, 4, 6, 7, 4, 4, 0, 7, 3, 7, 0, 9, 5, 5, 1, 6, 1, 5>>

\* the digits ds without their leading zeros
RECURSIVE StripZeros(_)
StripZeros(ds) ==
    IF ds # <<>> /\ ds[1] = "0" THEN StripZeros(Tail(ds)) ELSE ds

\* checked_mul / checked_add of the digit loop fail: the number written by
\* the digits ds is above u64::MAX
Overflows(ds) ==
    LET n == StripZeros(ds) IN
    \/ Len(n) > Len(U64MaxDigits)
    \/ /\ Len(n) = Len(U64MaxDigits)
       /\ \E i \in 1..Len(n) :
             /\ DigitOf(n[i]) > U64MaxDigits[i]
             /\ \A j \in 1..(i - 1) : DigitOf(n[j]) = U64MaxDigits[j]

\* the digit loop of from_str_radix: result = result * 10 + digit
RECURSIVE Accumulate(_, _)
Accumulate(ds, acc) ==
    IF ds = <<>> THEN acc
    ELSE Accumulate(Tail(ds), acc * 10 + DigitOf(ds[1]))

\* <u64 as FromStr>::from_str: Empty for ""; a lone sign is InvalidDigit; a
\* leading "+" is skipped, a "-" is not a digit of an unsigned type; every
\* other character must be a decimal digit (no space is trimmed); a value
\* above u64::MAX is PosOverflow
parse(str) ==
    IF str = <<>> THEN Err("Empty")
    ELSE IF str \in {<<"+">>, <<"-">>} THEN Err("InvalidDigit")
    ELSE LET ds == IF str[1] = "+" THEN Tail(str) ELSE str IN
         IF \E i \in 1..Len(ds) : ds[i] \notin Digits THEN Err("InvalidDigit")
         ELSE IF Overflows(ds) THEN Err("PosOverflow")
         ELSE Ok(Accumulate(ds, 0))

\* Option::unwrap_or / Result::unwrap_or
unwrap_or(o, d) == IF o[1] \in {"Some", "Ok"} THEN o[2] ELSE d

\* poll_refresh with 0 for a value that does not parse
poll_refresh_or_zero(cfg) ==
    unwrap_or(parse(unwrap_or(cfg, <<"3", "0", "0", "0", "0">>)), 0)

\* manager.rs:142-147  cluster.config.get(METADATA_POLL_INTERVAL)
\* .unwrap_or(&String::from("30000")).parse().unwrap_or(30_000)
poll_refresh(cfg) ==
    unwrap_or(parse(unwrap_or(cfg, <<"3", "0", "0", "0", "0">>)), 30000)

\* characters a configured value is made of here
ConfigChars == {"0", "1", "9", "+", "-", " ", "a"}

\* what cluster.config can hold under the key: nothing, or a String
Configs ==
    {None} \cup {Some(str) : str \in SeqsOf(ConfigChars, 0, MaxConfigLen)}

\* manager.rs:142-147  the poller resolves its period
PollRefresh ==
    /\ refresh = NoResult
    /\ refresh' = Some(poll_refresh(config))
    /\ UNCHANGED <<process, subsc, indexer, meta, config, timer>>

\* a poller that is spawned for a cluster with some configuration
PeriodInit ==
    /\ Constructed /\ boot = Booted({})
    /\ HttpIdle /\ SubsIdle /\ IndexerIdle /\ FetchIdle /\ TimerIdle
    /\ config \in Configs
    /\ refresh = NoResult

PeriodNext == PollRefresh

PeriodSpec == PeriodInit /\ [][PeriodNext]_vars

\* =====================================================================
\* The poller's interval over time (manager.rs:148-170). The unit of time
\* is the poll period. tokio::time::interval(period) has its first tick due
\* at creation and, not being told otherwise, MissedTickBehavior::Burst:
\* the tick after the one due at deadline is due at deadline + period,
\* whatever the time is.
\* =====================================================================

\* manager.rs:148  interval(..) created at time 0; the poller is at the select
NewInterval == [now |-> 0, deadline |-> 0, pc |-> "tick", start |-> 0, done |-> 0]

\* time passes, but not beyond the moment the poller's next step is due: a
\* tick that is due fires, a fetch returns when its time is up
ClockAdvance ==
    /\ timer.now < MaxClock
    /\ timer.pc = "tick" => timer.now < timer.deadline
    /\ timer.pc = "fetch" => timer.now < timer.done
    /\ timer' = [timer EXCEPT !.now = @ + 1]
    /\ UNCHANGED <<process, subsc, indexer, meta, period>>

\* manager.rs:152-155  interval.tick() completes: the next tick is due one
\* period after this one was due (Burst); fetch_meta() is called and will
\* take d periods
IntervalTick(d) ==
    /\ timer.pc = "tick"
    /\ timer.deadline <= timer.now
    /\ timer' = [timer EXCEPT !.deadline = @ + 1, !.pc = "fetch",
                              !.start = timer.now, !.done = timer.now + d]
    /\ UNCHANGED <<process, subsc, indexer, meta, period>>

\* manager.rs:155-170  fetch_meta() returns, the result is stored, the loop
\* is at the select again
FetchReturns ==
    /\ timer.pc = "fetch"
    /\ timer.done <= timer.now
    /\ timer' = [timer EXCEPT !.pc = "tick"]
    /\ UNCHANGED <<process, subsc, indexer, meta, period>>

\* a poller that has just created its interval
TimerInit ==
    /\ Constructed /\ boot = Booted({})
    /\ HttpIdle /\ SubsIdle /\ IndexerIdle /\ FetchIdle /\ PeriodIdle
    /\ timer = NewInterval

TimerNext ==
    \/ ClockAdvance
    \/ \E d \in 0..MaxFetch : IntervalTick(d)
    \/ FetchReturns

TimerSpec == TimerInit /\ [][TimerNext]_vars

TypeOK ==
    /\ context \in [Ids -> Tasks \cup {NoTask}]
    /\ rwlock.readers \in 0..1
    /\ ~(rwlock.writer /\ rwlock.readers > 0)
    /\ \A t \in Tasks : state[t] \in {"NotStarted", "Started", "Complete"}
    /\ boot.phase \in {"new", "starting", "ok", "failed"}
    /\ boot.todo \subseteq boot.listed
    /\ server \in {"running", "stopped"}

\* ---- fairness: every task on the executor is scheduled again and again,
\* every fetch returns (it has a timeout), time passes, and the tokio RwLock is
\* fair (FIFO), so a task that keeps asking for the lock gets it when the lock
\* is free again and again. Nothing forces a new call to be made.
Fairness ==
    /\ \A t \in Tasks :
         /\ WF_vars(PollerStep(t))
         /\ SF_vars(PollStore(t))
         /\ WF_vars(\E r \in FetchResults : PollFetch(t, r))
         /\ WF_vars(Tick(t))
    /\ \A c \in Callers :
         /\ WF_vars(CallerStep(c))
         /\ SF_vars(InitInsert(c))
    /\ WF_vars(StopStep)

FairSpec == Spec /\ Fairness

\* ---- state predicates used by the properties ----

\* the poller task of context t exists and has not ended
Running(t) ==
    ppc[t] \in {"select", "waiting", "fetch", "store", "complete", "complete_write"}

\* context t has been put into the context map at some time
Inserted(t) == ppc[t] \notin {"none", "created"}

\* some task is inside begin() of latch t
InBegin(t) ==
    \/ \E c \in Callers :
          cpc[c] \in {"remove_skip", "remove_notify", "remove_write"} /\ ctask[c] = t
    \/ spc \in {"begin_notify", "begin_write"} /\ scur = t

\* a call of begin() on latch t has returned
BeginReturned(t) == state[t] # "NotStarted" /\ ~InBegin(t)

\* the call of complete() on latch t has returned
CompleteReturned(t) == ppc[t] = "done"

\* the step is stop() returning
StopReturns == spc = "iterate" /\ spc' = "done"

\* id had a context, remove(id) took it out of the map and has returned, and
\* no register of id is under way
RemovedId(id) ==
    /\ context[id] = NoTask
    /\ \E t \in Tasks : cluster[t] = id /\ Inserted(t)
    /\ \A c \in Callers : ~(cop[c] = "register" /\ cid[c] = id)

\* the poller of t still runs although remove() took t out of the map and the
\* begin() that remove called has returned
RemovedTask(t) ==
    /\ Running(t)
    /\ context[cluster[t]] # t
    /\ BeginReturned(t)

\* no register, remove or get call is under way
Quiescent == \A c \in Callers : cpc[c] \in {"idle", "returned"}

\* the step is poller t storing its fetch result
PollerStores(t) == ppc[t] = "store" /\ ppc'[t] # "store"

\* ---------------------------------------------------------------------
\* C1: when stop() returns, the latch of every registered context is
\* Complete and the poller of every registered context has ended.
C1_StopLeavesAllComplete ==
    [][StopReturns =>
         \A id \in Ids : context[id] # NoTask =>
             /\ state'[context[id]] = "Complete"
             /\ ~Running(context[id])]_vars

\* ---------------------------------------------------------------------
\* C2: stop() always terminates: once called it eventually returns, whatever
\* the pollers are doing (fair scheduling, every fetch returns).
C2_StopTerminates == (spc \notin {"idle", "done"}) ~> (spc = "done")

\* ---------------------------------------------------------------------
\* C3: a wait registered after the transition has happened does not block:
\* the future of wait_begin() created after begin() returned, and the future
\* of wait_complete() created after complete() returned, is released.
C3_LateWaitReleased ==
    [][/\ \A t \in Tasks :
            (ppc[t] = "select" /\ ppc'[t] = "waiting" /\ BeginReturned(t))
                => "poller" \in begin'[t].notified
       /\ (spc = "wait_complete" /\ spc' = "waiting" /\ CompleteReturned(scur))
                => "stop" \in complete'[scur].notified]_vars

\* ---------------------------------------------------------------------
\* C4: every id with a context has a Processing, Meta or Failed entry, and
\* every id without a context has no cache entry.
C4_ContextIffCache ==
    \A id \in Ids :
        /\ context[id] # NoTask => cache[id][1] \in {"Processing", "Meta", "Failed"}
        /\ context[id] = NoTask => cache[id] = None

\* ---------------------------------------------------------------------
\* C5: a get(id) that starts after remove(id) has returned, with no register
\* of id in between, finds no entry.
C5_GetAfterRemoveAbsent ==
    [][\A c \in Callers, id \in Ids :
         (cpc[c] = "idle" /\ cop'[c] = "get" /\ cid'[c] = id /\ RemovedId(id))
             => cret'[c] = Ok(None)]_vars

\* ---------------------------------------------------------------------
\* C6: after remove(id) has returned for a registered id, the poller of the
\* removed context eventually calls complete() and ends.
C6_RemovedPollerExits ==
    \A t \in Tasks : RemovedTask(t) ~> (ppc[t] = "done")

\* ---------------------------------------------------------------------
\* C7: register on an id that already has a context (also one that another,
\* concurrent register has just inserted) is a no-op that returns success: it
\* replaces no context, leaves the cache entry alone and spawns no poller.
C7_RegisterIsNoOp ==
    [][\A c \in Callers :
         (/\ cop[c] = "register"
          /\ cpc'[c] # cpc[c]
          /\ context[cid[c]] \notin {NoTask, ctask[c]})
         => /\ context' = context
            /\ cache' = cache
            /\ \A t \in Tasks : Running(t)' => Running(t)
            /\ cpc[c] = "init_check" => cpc'[c] = "returned" /\ cinit'[c] = Ok(Unit)]_vars

\* ---------------------------------------------------------------------
\* C8: once concurrent register(c) and remove(c.id) calls have finished, an
\* id has a context and a cache entry, or neither of the two.
C8_RegisterRemoveConsistent ==
    Quiescent =>
        \A id \in Ids :
            \/ context[id] # NoTask /\ cache[id][1] \in {"Processing", "Meta", "Failed"}
            \/ context[id] = NoTask /\ cache[id] = None

\* ---------------------------------------------------------------------
\* C9: after remove(id) and a new register(id) the cache entry starts at
\* Processing and only the new context's poller writes it: the poller of the
\* removed context does not change the entry of the new one.
C9_EpochsIndependent ==
    [][/\ \A c \in Callers :
            (cpc[c] = "init_insert" /\ cpc'[c] = "init_spawn")
                => cache'[cid[c]] = Processing
       /\ \A t \in Tasks :
            (/\ PollerStores(t)
             /\ state[t] # "NotStarted"
             /\ context[cluster[t]] \notin {NoTask, t})
                => cache' = cache]_vars

C11_OneWriterPerKey ==
    \A t, u \in Tasks :
        (t # u /\ cluster[t] = cluster[u])
            => ~(ppc[t] = "store" /\ ppc[u] = "store")

\* ---------------------------------------------------------------------
\* C12: when building the fetcher fails during register(c), register returns
\* the error to its caller and the manager is unchanged: no context, no cache
\* entry, no poller.
C12_CreateFailureReturned ==
    [][\A c \in Callers :
         (cop[c] = "register" /\ cpc[c] = "init_create" /\ cinit'[c][1] = "Err")
            => /\ cret'[c] = cinit'[c]
               /\ UNCHANGED <<context, cache, ppc>>]_vars

\* ---------------------------------------------------------------------
\* C13: the state of a latch only moves forward: a Complete latch stays
\* Complete, and a Started latch does not go back to NotStarted.
C13_LatchMovesForward ==
    [][\A t \in Tasks :
         /\ state[t] = "Complete" => state'[t] = "Complete"
         /\ state[t] = "Started" => state'[t] \in {"Started", "Complete"}]_vars

\* ---------------------------------------------------------------------
\* C14: begin() on a latch that is already Started or Complete takes the early
\* return: it changes no latch state, sends no notification and its caller
\* goes on, so the latch is as a single begin() left it.
C14_BeginIdempotent ==
    [][/\ \A c \in Callers :
            /\ (/\ cpc[c] = "idle" /\ cop'[c] = "remove"
                /\ ctask'[c] # NoTask /\ is_shutdown(ctask'[c]))
                  => cpc'[c] = "remove_skip" /\ UNCHANGED latch
            /\ (cpc[c] = "remove_skip" /\ cpc'[c] # "remove_skip")
                  => /\ UNCHANGED latch
                     /\ cpc'[c] = "returned" /\ cret'[c] = Unit
       /\ (spc = "iterate" /\ scur' # scur /\ scur' # NoTask /\ is_shutdown(scur'))
            => spc' = "wait_complete" /\ UNCHANGED latch]_vars

\* remove() has called begin() on a latch that stop() had driven to Complete,
\* and begin() has taken its early return
C14_Witness ==
    \E c \in Callers :
        /\ cpc[c] = "remove_skip"
        /\ ctask[c] # NoTask
        /\ state[ctask[c]] = "Complete"
        /\ spc = "done"

\* ---------------------------------------------------------------------
\* C15: complete() comes after begin(): a latch becomes Complete only from
\* Started, so every Complete latch has been Started before, and complete()
\* on a Complete latch leaves it Complete.
C15_CompleteAfterStarted ==
    [][\A t \in Tasks :
         /\ (state'[t] = "Complete" /\ state[t] # "Complete") => state[t] = "Started"
         /\ (ppc[t] = "complete_write" /\ state[t] = "Complete")
               => state'[t] = "Complete"]_vars

\* ---------------------------------------------------------------------
\* C16: the latch waits are broadcast: when begin() makes the transition from
\* NotStarted to Started no task is left waiting in wait_begin() without
\* having been woken, and complete() wakes every task that waits in
\* wait_complete() when it is called.
C16_WaitsAreBroadcast ==
    [][\A t \in Tasks :
         /\ (state[t] = "NotStarted" /\ state'[t] = "Started")
               => begin'[t].waiters = {}
         /\ (ppc[t] = "complete" /\ ppc'[t] = "complete_write")
               => complete[t].waiters \subseteq complete'[t].notified]_vars

\* ---------------------------------------------------------------------
\* C17: remove(id) on an id that has no context, such as a second remove(id)
\* after a first one, changes neither the context map nor the cache, signals
\* no latch and returns.
C17_RemoveAbsentIsNoOp ==
    [][\A c \in Callers :
         /\ (cpc[c] = "idle" /\ cop'[c] = "remove" /\ context[cid'[c]] = NoTask)
               => /\ UNCHANGED <<context, cache, state, begin, complete>>
                  /\ cpc'[c] = "remove_skip"
         /\ (cpc[c] = "remove_skip" /\ ctask[c] = NoTask /\ cpc'[c] # cpc[c])
               => /\ UNCHANGED <<context, cache, state, begin, complete>>
                  /\ cpc'[c] = "returned" /\ cret'[c] = Unit]_vars

\* a first remove(id) has taken the context of id out of the map and has
\* returned, and a second remove(id), under the write lock, has found none
C17_Witness ==
    \E c, d \in Callers :
        /\ cop[c] = "remove" /\ cpc[c] = "remove_skip" /\ ctask[c] = NoTask
        /\ cop[d] = "remove" /\ cpc[d] = "returned" /\ ctask[d] # NoTask
        /\ cid[c] = cid[d]
        /\ context[cid[c]] = NoTask
        /\ cache[cid[c]] # None

\* ---------------------------------------------------------------------
\* C18: get(id) returns absent exactly when the cache has no entry for id and
\* otherwise a copy of the entry, and changes neither the context map nor
\* the cache; GET /clusters/{id}/metadata answers 404 exactly when get
\* returned absent and otherwise answers 200 with the entry as its body.
C18_GetReadsCache ==
    [][\A c \in Callers :
         (cpc[c] = "idle" /\ cop'[c] = "get")
            => /\ cret'[c] = Ok(cache[cid'[c]])
               /\ UNCHANGED <<context, cache>>
               /\ cresp'[c][1] = "404" <=> cret'[c][2] = None
               /\ cret'[c][2] # None
                    => /\ cresp'[c][1] = "200"
                       /\ FromJson(cresp'[c][2]) = cret'[c][2]]_vars

\* one handler has answered 404 for an id, another has answered 200 with the
\* Failed entry of the same id
C18_Witness ==
    \E c, d \in Callers :
        /\ cop[c] = "get" /\ cpc[c] = "returned" /\ cresp[c][1] = "404"
        /\ cop[d] = "get" /\ cpc[d] = "returned" /\ cresp[d][1] = "200"
        /\ cid[c] = cid[d]
        /\ cret[d][2][1] = "Failed"
        /\ cache[cid[d]] = cret[d][2]

\* ---------------------------------------------------------------------
\* C19: when start() returns Ok, every cluster id the store listed has a
\* context, a cache entry and a spawned poller; when the store's list call
\* fails, start() returns that error and no context, cache entry or poller
\* exists.
C19_StartRegistersAll ==
    [][\A c \in Callers :
         (cop'[c] = "start" /\ cpc[c] # "returned" /\ cpc'[c] = "returned")
            => /\ cret'[c][1] = "Ok" =>
                    \A id \in boot'.listed :
                        /\ context'[id] # NoTask
                        /\ cache'[id] # None
                        /\ ppc'[context'[id]] \notin {"none", "created", "inserted"}
               /\ cpc[c] = "idle" =>
                    /\ cret'[c] = Err("list")
                    /\ \A id \in Ids : context'[id] = NoTask /\ cache'[id] = None
                    /\ \A t \in Tasks : ppc'[t] = "none"]_vars

\* start() has returned Ok for a store that lists all the cluster ids
C19_Witness ==
    \E c \in Callers :
        /\ cop[c] = "start" /\ cpc[c] = "returned" /\ cret[c] = Ok(Unit)
        /\ boot.listed = Ids
        /\ \A id \in Ids : context[id] # NoTask

\* ---------------------------------------------------------------------
\* C20: on interrupt the HTTP server stops accepting connections before
\* stop() is called, so stop() starts only when the server is stopped and no
\* register or remove request is accepted once stop() has started.
C20_ServerStopsBeforeManager ==
    [][/\ (spc = "idle" /\ spc' # "idle") => server = "stopped"
       /\ \A c \in Callers :
            (cpc[c] = "idle" /\ cop'[c] \in {"register", "remove"})
                => spc = "idle"]_vars

\* ---------------------------------------------------------------------
\* C21: POST /clusters inserts the cluster in the store and then registers it
\* with the id the store assigned; no step of that register changes the
\* store; and when the init of that register returned an error, the handler
\* answers 500.
C21_RegisterFailureIs500 ==
    [][\A c \in Callers :
         /\ (cpc[c] = "idle" /\ cresp'[c] = Pending("post"))
               => /\ cid'[c] = store.next
                  /\ cid'[c] \in store'.rows
                  /\ cop'[c] = "register"
         /\ (cresp[c] = Pending("post") /\ cpc'[c] # cpc[c])
               => store' = store
         /\ (cresp[c] = Pending("post") /\ cresp'[c] # cresp[c]
                 /\ cinit[c][1] = "Err")
               => cresp'[c][1] = "500"]_vars

\* ---------------------------------------------------------------------
\* C22: a DELETE /clusters/{id} handler is inside the manager's remove(id)
\* only after its store.remove(id) returned Ok; when store.remove fails the
\* handler answers 500 in that step, with the context map and the cache
\* unchanged, and makes no manager call.
C22_DeleteStoreThenManager ==
    [][\A c \in Callers :
         /\ (cop'[c] = "remove"
                 /\ cpc'[c] \in {"remove_call", "remove_skip", "remove_notify",
                                 "remove_write"})
               => cstore'[c] = Ok(cid'[c])
         /\ (cpc[c] = "idle" /\ cstore'[c] = Err("remove"))
               => /\ cresp'[c][1] = "500"
                  /\ cpc'[c] = "returned"
                  /\ cop'[c] = "none"
                  /\ UNCHANGED <<context, cache>>]_vars

\* one DELETE whose store.remove failed has answered 500 and the cluster is
\* still registered; another DELETE has taken a context out and answered 200
C22_Witness ==
    \E c, d \in Callers :
        /\ cstore[c] = Err("remove") /\ cresp[c][1] = "500"
        /\ context[cid[c]] # NoTask /\ cache[cid[c]] # None
        /\ cop[d] = "remove" /\ cpc[d] = "returned" /\ cresp[d][1] = "200"
        /\ ctask[d] # NoTask /\ context[cid[d]] = NoTask

\* ---------------------------------------------------------------------
\* C23: a subscription handler calls the subscription store only for a
\* cluster that is in the cluster store; a request for a cluster that is not
\* is answered 404 (500 when the look-up itself failed) and leaves every
\* subscription as it was.
C23_MissingClusterIs404 ==
    [][/\ (ureq'.ss /\ ~ureq.ss) => ureq.cluster \in store.rows
       /\ (ureq.pc # "done" /\ ureq'.pc = "done" /\ ureq.cluster \notin store.rows)
             => /\ ureq'.resp \in {"404", "500"}
                /\ subs' = subs]_vars

\* ---------------------------------------------------------------------
\* C24: when the loop of Scheduler.start() ends, start() returns Ok and
\* every subscription whose cluster the store returned has a worker: a
\* subscription whose cluster is missing does not stop start().
C24_MissingClusterSkipped ==
    [][(sched.start = "loop" /\ sched'.start # "loop")
          => /\ sched'.ret = Ok(Unit)
             /\ \A r \in subs.rows :
                   r[1] \in store.rows
                      => r[2] \in workers'.map /\ workers'.task[r[2]] # "none"]_vars

\* ---------------------------------------------------------------------
\* C25: Scheduler.stop() returns normally (it does not panic), and when it
\* has returned no worker task is running.
C25_StopShutsWorkersDown ==
    [][(sched.stop = "new" /\ sched'.stop # "new")
          => /\ sched'.stop = "returned"
             /\ \A w \in SubIds : workers'.task[w] \notin {"awake", "asleep"}]_vars

\* how often x occurs in the sequence s
Count(s, x) == Cardinality({i \in DOMAIN s : s[i] = x})

\* s and t hold the same elements, each as often
SameElements(s, t) ==
    /\ Len(s) = Len(t)
    /\ \A i \in DOMAIN s : Count(s, s[i]) = Count(t, s[i])

\* a topic with its partitions as a bag: how often each partition occurs
TopicBag(t) ==
    [name |-> t.name,
     parts |-> {<<p, Count(t.partitions, p)>> : p \in {t.partitions[i] : i \in DOMAIN t.partitions}},
     n |-> Len(t.partitions)]

\* ---------------------------------------------------------------------
\* C26: the ClusterMetadata of a successful fetch has its brokers in
\* ascending order of host, its topics and its groups in ascending order of
\* name and the partitions of every topic in ascending order of id, and it
\* holds the brokers, topics, partitions and groups the cluster reported,
\* each as many times as reported.
C26_FetchIsSorted ==
    meta # <<>> /\ meta.out # NoResult /\ meta.out[1] = "Ok" =>
        LET m == meta.out[2] IN
        /\ \A i, j \in DOMAIN m.brokers :
              i < j => ~StrLess(m.brokers[j].host, m.brokers[i].host)
        /\ \A i, j \in DOMAIN m.topics :
              i < j => ~StrLess(m.topics[j].name, m.topics[i].name)
        /\ \A i, j \in DOMAIN m.groups :
              i < j => ~StrLess(m.groups[j].name, m.groups[i].name)
        /\ \A k \in DOMAIN m.topics :
              \A i, j \in DOMAIN m.topics[k].partitions :
                 i < j => m.topics[k].partitions[i].id <= m.topics[k].partitions[j].id
        /\ SameElements(m.brokers, meta.raw.brokers)
        /\ SameElements(m.groups, meta.raw.groups)
        /\ SameElements([i \in DOMAIN m.topics |-> TopicBag(m.topics[i])],
                        [i \in DOMAIN meta.raw.topics |-> TopicBag(meta.raw.topics[i])])

\* a fetch has succeeded for a cluster that reported its brokers, its
\* topics, its groups and the partitions of one topic in descending order
C26_Witness ==
    /\ meta # <<>> /\ meta.out # NoResult /\ meta.out[1] = "Ok"
    /\ Len(meta.raw.brokers) = 2
    /\ StrLess(meta.raw.brokers[2].host, meta.raw.brokers[1].host)
    /\ Len(meta.raw.topics) = 2
    /\ StrLess(meta.raw.topics[2].name, meta.raw.topics[1].name)
    /\ Len(meta.raw.groups) = 2
    /\ StrLess(meta.raw.groups[2].name, meta.raw.groups[1].name)
    /\ Len(meta.raw.topics[1].partitions) = 2
    /\ meta.raw.topics[1].partitions[2].id < meta.raw.topics[1].partitions[1].id
    /\ meta.out[2].topics[2].partitions # meta.raw.topics[1].partitions

\* the String str is an optional "+" followed by one or more decimal digits
IsNumeral(str) ==
    LET ds == IF str # <<>> /\ str[1] = "+" THEN Tail(str) ELSE str IN
    ds # <<>> /\ \A i \in 1..Len(ds) : ds[i] \in Digits

\* 10 to the power n
RECURSIVE Pow10(_)
Pow10(n) == IF n = 0 THEN 1 ELSE 10 * Pow10(n - 1)

\* the number the numeral str writes, by place value
NumberOf(str) ==
    LET ds == IF str[1] = "+" THEN Tail(str) ELSE str
        place[i \in 0..Len(ds)] ==
            IF i = 0 THEN 0
            ELSE place[i - 1] + DigitOf(ds[i]) * Pow10(Len(ds) - i)
    IN place[Len(ds)]

\* ---------------------------------------------------------------------
\* C27: the period a poller resolves is 30000 when the key is missing,
\* the number the configured value writes when that value is a numeral of
\* an unsigned 64-bit integer, and 30000 for every other value (a word, a
\* negative number, the empty string, a number with a space).
C27_RefreshParsedOrDefault ==
    refresh # NoResult =>
        IF config = None THEN refresh = Some(30000)
        ELSE IF IsNumeral(config[2]) THEN refresh = Some(NumberOf(config[2]))
        ELSE refresh = Some(30000)

\* a poller has resolved its period for the configured value "-1", which
\* does not parse as an unsigned integer
C27_Witness ==
    /\ config = Some(<<"-", "1">>)
    /\ refresh = Some(30000)

\* a register(id) has returned after its init returned Ok, and the context it
\* found or made is still in the map
Registered(id) ==
    /\ context[id] # NoTask
    /\ \E c \in Callers :
          /\ cop[c] = "register" /\ cpc[c] = "returned"
          /\ cid[c] = id /\ cinit[c] = Ok(Unit)

\* ---------------------------------------------------------------------
\* C28: once register(id) has returned successfully, the cache entry of id
\* eventually leaves Processing (it becomes Meta or Failed), unless a
\* remove(id) takes the context out or stop() is started.
C28_FirstFetchPublished ==
    \A id \in RequestIds :
        Registered(id) ~>
            \/ cache[id] # None /\ cache[id][1] \in {"Meta", "Failed"}
            \/ context[id] = NoTask
            \/ spc # "idle"

\* ---------------------------------------------------------------------
\* C29: the tick that fires after a fetch that took longer than two poll
\* periods is the only one to fire at once: the tick after it is due later
\* than now, so the missed ticks are not fetched for one after the other.
C29_MissedTicksCoalesced ==
    [][(timer.pc = "tick" /\ timer'.pc = "fetch" /\ timer.now - timer.start > 2)
          => timer'.deadline > timer.now]_vars

\* the write guard of the manager's lock is held by a remove() under way
WriterIsRemove ==
    \E c \in Callers : cpc[c] \in {"remove_skip", "remove_notify", "remove_write"}

\* the read guards of the manager's lock that stop() holds
StopGuards == IF spc \in {"idle", "done"} THEN 0 ELSE 1

\* ---------------------------------------------------------------------
\* C30: while a fetch of some poller is in progress, every guard of the
\* manager's lock is in the hands of a remove() or of stop(), none in the
\* hands of a poller; and the steps of a poller up to the return of its
\* fetch leave the lock alone.
C30_NoLockAcrossFetch ==
    [][/\ (\E t \in Tasks : ppc'[t] = "fetch")
            => /\ rwlock'.writer <=> WriterIsRemove'
               /\ rwlock'.readers = StopGuards'
       /\ \A t \in Tasks :
            (ppc[t] \in {"select", "waiting", "fetch"} /\ ppc'[t] # ppc[t])
               => rwlock' = rwlock]_vars

\* a fetch is in progress while a remove() holds the write guard of the lock
C30_Witness ==
    /\ \E t \in Tasks : ppc[t] = "fetch"
    /\ rwlock.writer
    /\ WriterIsRemove

\* the step puts a context into the map under id
Inserts(id) == context'[id] # context[id] /\ context'[id] # NoTask

\* ---------------------------------------------------------------------
\* C31: register puts the context into the map and sets the cache entry of
\* its id to Processing in one step that needs the write lock, before the
\* poller is spawned: a context in the map always has a cache entry, and a
\* poller stores only where an entry exists.
C31_ContextWithProcessing ==
    [][/\ \A id \in Ids :
            /\ Inserts(id) =>
                 /\ CanWrite
                 /\ cache'[id] = Processing
                 /\ ppc'[context'[id]] = "inserted"
            /\ context'[id] # NoTask => cache'[id] # None
       /\ \A t \in Tasks : PollerStores(t) => cache[cluster[t]] # None]_vars

\* a register call has inserted its context and not yet spawned the poller
C31_Witness ==
    \E c \in Callers :
        /\ cop[c] = "register"
        /\ cpc[c] = "init_spawn"
        /\ context[cid[c]] = ctask[c]
        /\ cache[cid[c]] = Processing
        /\ ppc[ctask[c]] = "inserted"

\* stop() is waiting for the poller of one context to complete
StopAwaitsComplete == spc \in {"wait_complete", "waiting"}

\* ---------------------------------------------------------------------
\* C32: stop() calls begin() on the latch of every registered context
\* without waiting for any poller: while stop() waits for one poller to
\* complete, no registered context is still left without its begin().
C32_BeginNotHeldBack == StopAwaitsComplete => stodo = {}

\* the worker tasks of subscription w that are running
WorkersOf(w) ==
    workers.old[w] + (IF workers.task[w] \in {"awake", "asleep"} THEN 1 ELSE 0)

\* ---------------------------------------------------------------------
\* C33: start() is protected against multiple starts: however often it is
\* called, no subscription has more than one running worker.
C33_OneWorkerPerSubscription == \A w \in SubIds : WorkersOf(w) <= 1

\* the poller of t has been released from wait_begin(): its Notified future
\* was woken, or it has gone on from the select to its call of complete()
Released(t) == "poller" \in begin[t].notified \/ ppc[t] = "complete"

\* ---------------------------------------------------------------------
\* C34: a task released from wait_begin() observes is_shutdown() = true
\* from the moment it is released, also while begin() is still executing.
C34_ReleasedSeesShutdown == \A t \in Tasks : Released(t) => is_shutdown(t)

\* begin() has been called on latch t: a call is under way or has returned
\* (begin() is the only writer of Started, and Complete is written by the
\* poller only after it was released by a begin())
BeginCalled(t) == InBegin(t) \/ state[t] # "NotStarted" \/ Released(t)

\* ---------------------------------------------------------------------
\* C35: no poller is orphaned: every running poller has its latch in the
\* context map under its cluster id or has had begin() called on its latch,
\* also when several register calls of one id run concurrently.
C35_NoOrphanPoller ==
    \A t \in Tasks : Running(t) => context[cluster[t]] = t \/ BeginCalled(t)

\* a get(id) call of caller c has returned an entry
GotEntry(c) == cop[c] = "get" /\ cpc[c] = "returned" /\ cret[c] # Ok(None)

\* ---------------------------------------------------------------------
\* C36: the ids that have a cache entry only grow: no step of register,
\* remove, a poller or stop deletes a cache entry, and an id for which get
\* has returned an entry has an entry from then on.
C36_CacheOnlyGrows ==
    [][/\ \A id \in Ids : cache[id] # None => cache'[id] # None
       /\ \A c \in Callers : GotEntry(c) => cache'[cid[c]] # None]_vars

\* a remove(id) that found the context has returned, a get(id) has returned
\* an entry, and the entry is still there
C36_Witness ==
    \E c, d \in Callers :
        /\ GotEntry(c)
        /\ cop[d] = "remove" /\ cpc[d] = "returned" /\ ctask[d] # NoTask
        /\ cid[d] = cid[c]
        /\ context[cid[c]] = NoTask
        /\ cache[cid[c]] # None

\* poller t has called complete() on its latch
CompleteCalled(t) == ppc[t] \in {"complete_write", "done"}

\* the step is poller t starting a fetch
PollerFetches(t) == ppc[t] # "fetch" /\ ppc'[t] = "fetch"

\* ---------------------------------------------------------------------
\* C37: a poller that has called complete() on its latch starts no fetch and
\* writes no cache entry any more, and no poller writes the cache while its
\* latch is Complete.
C37_NothingAfterComplete ==
    [][\A t \in Tasks :
         /\ CompleteCalled(t) =>
               /\ CompleteCalled(t)'
               /\ ~PollerFetches(t) /\ ~PollerStores(t)
         /\ PollerStores(t) => state[t] # "Complete"]_vars

\* a poller that published metadata has completed its latch and ended
C37_Witness ==
    \E t \in Tasks :
        /\ ppc[t] = "done"
        /\ state[t] = "Complete"
        /\ cache[cluster[t]][1] = "Meta"

\* the poller task of t has ended
Ended(t) == ppc[t] \in {"done", "panicked"}

\* ---------------------------------------------------------------------
\* C38: a poller task ends only through the latch branch, for every poll
\* period including zero: a poller that has ended has called complete() on
\* its latch, so none leaves its cache entry at Processing with its latch
\* not Complete.
C38_EndsThroughLatch ==
    \A t \in Tasks : Ended(t) =>
        /\ CompleteCalled(t)
        /\ ~(cache[cluster[t]] = Processing /\ state[t] = "NotStarted")

\* every handler has sent its answer: no request is under way
HandlersFinished == \A c \in Callers : cpc[c] = "idle"

\* ---------------------------------------------------------------------
\* C39: once every POST /clusters and DELETE /clusters/{id} handler has
\* finished, no context and no running poller exists for an id that is not
\* in the cluster store.
C39_RegistryFollowsStore ==
    HandlersFinished =>
        /\ \A id \in Ids : context[id] # NoTask => id \in store.rows
        /\ \A t \in Tasks : Running(t) => cluster[t] \in store.rows

\* the step leaves the context and the cache entry of every id but id alone
OthersUntouched(id) ==
    \A j \in Ids \ {id} : context'[j] = context[j] /\ cache'[j] = cache[j]

\* ---------------------------------------------------------------------
\* C40: operations on one cluster id leave every other id untouched: no
\* step of register(c), of remove(i) or of the poller of i changes the
\* context or the cache entry of an id other than c.id or i.
C40_OtherIdsUntouched ==
    [][/\ \A c \in Callers :
            (cpc'[c] # cpc[c] /\ cop'[c] \in {"register", "remove"})
                => OthersUntouched(cid'[c])
       /\ \A t \in Tasks :
            ppc'[t] # ppc[t] => OthersUntouched(cluster'[t])]_vars

\* remove(i) has taken the context of i out and returned while another id
\* keeps its context and the metadata its poller published
C40_Witness ==
    \E d \in Callers, j \in Ids :
        /\ cop[d] = "remove" /\ cpc[d] = "returned" /\ ctask[d] # NoTask
        /\ j # cid[d]
        /\ context[cid[d]] = NoTask
        /\ context[j] # NoTask
        /\ cache[j][1] = "Meta"

====
